---- MODULE Spec2Model ----
(***************************************************************************)
(* Model of BuddySystemAllocator (src/buddy_system.py): a binary buddy     *)
(* allocator with one free set per level and a map of allocated blocks.    *)
(***************************************************************************)
EXTENDS Integers, FiniteSets, Sequences, TLC

\* ---- bounds of the model ----
\* largest total_memory_mb / min_block_mb the constructor is called with
MaxTotal == 12
\* requests range from ReqSlack below 0 to ReqSlack above total_size
ReqSlack == 1

VARIABLES
    total_size,        \* self.total_size
    min_size,          \* self.min_size
    levels,            \* self.levels
    free_blocks,       \* self.free_blocks: level -> set of addresses
    allocated_blocks,  \* self.allocated_blocks: address -> size
    last,              \* the last call: [op, arg, ret]
    pre,               \* free_blocks and allocated_blocks before the last call
    history,           \* the calls of a scenario run, in order: <<[op, arg, ret], ...>>
    threads,           \* step-wise runs: caller -> its position and locals in a call
    capacity,          \* LRUCache: self.capacity
    cache,             \* LRUCache: self.cache, <<[key, value], ...>> from oldest to newest
    stamp,             \* key -> time of its latest access (kept for the properties)
    clock,             \* number of accesses so far
    lru_last,          \* the last LRUCache call: [op, key, present, ret, evicted]
    page_size,         \* MMU: self.page_size, in bytes
    num_frames,        \* MMU: self.num_frames
    page_table,        \* MMU: self.page_table: process -> (page -> frame)
    free_frames,       \* MMU: self.free_frames
    used_frames,       \* MMU: self.used_frames
    page_faults,       \* MMU: self.page_faults
    memory_accesses,   \* MMU: self.memory_accesses
    mmu_last,          \* the last MMU call: [op, pid, va, ret, fault, raised]
    max_gpus,          \* ResourceAllocator: initial value of gpu_semaphore
    max_cpus,          \* ResourceAllocator: initial value of cpu_semaphore
    gpu_semaphore,     \* ResourceAllocator: value of self.gpu_semaphore
    cpu_semaphore,     \* ResourceAllocator: value of self.cpu_semaphore
    tasks,             \* the threads add_task started: <<[type, pc], ...>>
    total_memory,      \* VirtualMemoryManager: self.total_memory, in MB
    vm_page_size,      \* VirtualMemoryManager: self.page_size
    physical_memory,   \* VirtualMemoryManager: self.physical_memory, oldest first
    disk,              \* VirtualMemoryManager: self.disk: page -> data
    vm_page_faults,    \* VirtualMemoryManager: self.page_faults
    hits,              \* VirtualMemoryManager: self.hits
    vm_stamp,          \* page -> time of its latest load_page (kept for the properties)
    vm_last            \* the last load_page: [page_id, data, ret, full, evicted]

\* the fields of the allocator and what is recorded about its calls
allocator == <<total_size, min_size, levels, free_blocks, allocated_blocks, last, pre,
               history, threads>>

\* the fields of the cache and what is recorded about its calls
lru == <<capacity, cache, stamp, clock, lru_last>>

\* the fields of the MMU and what is recorded about its calls
mmu == <<page_size, num_frames, page_table, free_frames, used_frames, page_faults,
         memory_accesses, mmu_last>>

\* the fields of the ResourceAllocator and the threads it started
pool == <<max_gpus, max_cpus, gpu_semaphore, cpu_semaphore, tasks>>

\* the fields of the VirtualMemoryManager and what is recorded about its calls
vmm == <<total_memory, vm_page_size, physical_memory, disk, vm_page_faults, hits,
         vm_stamp, vm_last>>

vars == <<allocator, lru, mmu, pool, vmm>>

\* what the runs of whole calls on one allocator leave alone
elsewhere == <<threads, lru, mmu, pool, vmm>>

\* ---- integer helpers ----
\* Python's None as returned by allocate; no address is negative
None == 0 - 1

Max(a, b) == IF a >= b THEN a ELSE b

Min(a, b) == IF a <= b THEN a ELSE b

\* x << n
Shl(x, n) == x * (2 ^ n)

\* a ^ b for non-negative integers
RECURSIVE Xor(_, _)
Xor(a, b) ==
    IF a = 0 THEN b
    ELSE IF b = 0 THEN a
    ELSE (((a % 2) + (b % 2)) % 2) + 2 * Xor(a \div 2, b \div 2)

\* int(math.log2(q)) for q >= 1
RECURSIVE FloorLog2(_)
FloorLog2(q) == IF q <= 1 THEN 0 ELSE 1 + FloorLog2(q \div 2)

\* math.ceil(math.log2(num / den)) for num >= den > 0: least k with den * 2^k >= num
RECURSIVE CeilLog2From(_, _, _)
CeilLog2From(num, den, k) ==
    IF Shl(den, k) >= num THEN k ELSE CeilLog2From(num, den, k + 1)

\* variant: the logarithm is rounded down instead of up
MutCeilLog2Floor(num, den) == FloorLog2(num \div den)

CeilLog2(num, den) == CeilLog2From(num, den, 0)

\* ---- the allocator's functions ----
\* a // b of Python ints, b # 0: the floor of the quotient
PyFloorDiv(a, b) == IF b > 0 THEN a \div b ELSE (0 - a) \div (0 - b)

\* how __init__ ends: // raises ZeroDivisionError for min_block_mb = 0 and
\* math.log2 raises ValueError unless total // min >= 1
NewOutcome(total, min) ==
    IF min = 0 THEN "ZeroDivisionError"
    ELSE IF PyFloorDiv(total, min) < 1 THEN "ValueError"
    ELSE "ok"

ConstructOK(total, min) == NewOutcome(total, min) = "ok"

\* variant: the count of levels misses the level of the minimum size
MutInitLevelsNoPlusOne(total, min) == FloorLog2(PyFloorDiv(total, min))

\* variant: the logarithm is rounded up, as in L = ceil(log2(T/S)) + 1
MutInitLevelsCeil(total, min) == CeilLog2(total, min) + 1

InitLevels(total, min) == FloorLog2(PyFloorDiv(total, min)) + 1

InitFreeBlocks(lv) == [l \in 0..(lv - 1) |-> IF l = lv - 1 THEN {0} ELSE {}]

_get_level(size_mb) ==
    LET s == IF size_mb < min_size THEN min_size ELSE size_mb
    IN  Max(0, CeilLog2(s, min_size))

\* variant: the scan starts at level 0 instead of the target level
MutSuitableFromZero(fb, level) == {l \in 0..(levels - 1) : fb[l] # {}}

\* the levels the scan of allocate visits that hold a free block
Suitable(fb, level) == {l \in level..(levels - 1) : fb[l] # {}}

\* variant: the scan runs from the top level down
MutFirstNonEmptyTop(fb, level) ==
    CHOOSE l \in Suitable(fb, level) : \A m \in Suitable(fb, level) : l >= m

\* the first level of the scan with a free block
FirstNonEmpty(fb, level) ==
    CHOOSE l \in Suitable(fb, level) : \A m \in Suitable(fb, level) : l <= m

\* variant: the block found is read but left in its free set
MutPopFreeKeep(fb, lvl, addr) == fb

\* free_blocks after popping addr from level lvl
PopFree(fb, lvl, addr) == [fb EXCEPT ![lvl] = @ \ {addr}]

\* variant: the lower half is put back instead of the upper half
MutSplitBuddyLower(addr, l) == addr

\* variant: the offset of the upper half is not shifted by the level
MutSplitBuddyUnshifted(addr, l) == addr + min_size

\* the upper half put back at level l when the block at addr is split
SplitBuddy(addr, l) == addr + Shl(min_size, l)

\* variant: the split loop stops one level above the target
MutSplitDownStopsEarly(fb, addr, lvl, level) ==
    [l \in DOMAIN fb |->
        IF l > level /\ l < lvl THEN fb[l] \cup {SplitBuddy(addr, l)} ELSE fb[l]]

\* the loop `while lvl > level`: one upper half per level in level..lvl-1
SplitDown(fb, addr, lvl, level) ==
    [l \in DOMAIN fb |->
        IF l >= level /\ l < lvl THEN fb[l] \cup {SplitBuddy(addr, l)} ELSE fb[l]]

\* self.allocated_blocks[addr] = size
Record(ab, addr, size) ==
    [a \in (DOMAIN ab) \cup {addr} |-> IF a = addr THEN size ELSE ab[a]]

\* variant: a failing scan has dropped the too-small free blocks it passed
MutAllocateOutcomesLeak(fb, ab, size_mb) ==
    LET level == _get_level(size_mb)
    IN  IF Suitable(fb, level) = {}
        THEN {[ret |-> None,
               free |-> [l \in DOMAIN fb |-> IF l < level THEN {} ELSE fb[l]],
               alloc |-> ab]}
        ELSE LET lvl == FirstNonEmpty(fb, level)
             IN  {[ret   |-> addr,
                   free  |-> SplitDown(PopFree(fb, lvl, addr), addr, lvl, level),
                   alloc |-> Record(ab, addr, Shl(min_size, level))]
                    : addr \in fb[lvl]}

\* the possible outcomes of allocate(size_mb): set.pop() may return any element
AllocateOutcomes(fb, ab, size_mb) ==
    LET level == _get_level(size_mb)
    IN  IF Suitable(fb, level) = {}
        THEN {[ret |-> None, free |-> fb, alloc |-> ab]}
        ELSE LET lvl == FirstNonEmpty(fb, level)
             IN  {[ret   |-> addr,
                   free  |-> SplitDown(PopFree(fb, lvl, addr), addr, lvl, level),
                   alloc |-> Record(ab, addr, Shl(min_size, level))]
                    : addr \in fb[lvl]}

\* variant: the buddy is always taken to be the block above
MutBuddyAddrAbove(current_addr, current_level) ==
    current_addr + Shl(min_size, current_level)

\* buddy_addr = current_addr ^ (self.min_size << current_level)
BuddyAddr(current_addr, current_level) ==
    Xor(current_addr, Shl(min_size, current_level))

\* variant: the freed block is added without merging with its buddy
MutCoalesceNoMerge(fb, current_addr, current_level) ==
    [fb EXCEPT ![current_level] = @ \cup {current_addr}]

\* variant: the merged block keeps the address of the freed block
RECURSIVE MutCoalesceKeepsAddr(_, _, _)
MutCoalesceKeepsAddr(fb, current_addr, current_level) ==
    IF current_level < levels - 1
       /\ BuddyAddr(current_addr, current_level) \in fb[current_level]
    THEN MutCoalesceKeepsAddr([fb EXCEPT ![current_level] =
                                    @ \ {BuddyAddr(current_addr, current_level)}],
                              current_addr, current_level + 1)
    ELSE [fb EXCEPT ![current_level] = @ \cup {current_addr}]

\* the coalescing loop and the final add
RECURSIVE Coalesce(_, _, _)
Coalesce(fb, current_addr, current_level) ==
    IF current_level < levels - 1
       /\ BuddyAddr(current_addr, current_level) \in fb[current_level]
    THEN Coalesce([fb EXCEPT ![current_level] =
                        @ \ {BuddyAddr(current_addr, current_level)}],
                  Min(current_addr, BuddyAddr(current_addr, current_level)),
                  current_level + 1)
    ELSE [fb EXCEPT ![current_level] = @ \cup {current_addr}]

\* variant: the whole map is cleared
MutForgetAll(ab, addr) == [a \in {} |-> 0]

\* self.allocated_blocks.pop(addr)
Forget(ab, addr) == [a \in (DOMAIN ab) \ {addr} |-> ab[a]]

\* the guard of deallocate
IsAllocated(ab, addr) == addr \in DOMAIN ab

\* variant: an unknown address is freed as a block of the minimum size
MutDeallocateOutcomeUnchecked(fb, ab, addr) ==
    IF ~IsAllocated(ab, addr)
    THEN [ret |-> FALSE, free |-> Coalesce(fb, addr, 0), alloc |-> ab]
    ELSE [ret   |-> TRUE,
          free  |-> Coalesce(fb, addr, _get_level(ab[addr])),
          alloc |-> Forget(ab, addr)]

\* the outcome of deallocate(addr)
DeallocateOutcome(fb, ab, addr) ==
    IF ~IsAllocated(ab, addr)
    THEN [ret |-> FALSE, free |-> fb, alloc |-> ab]
    ELSE [ret   |-> TRUE,
          free  |-> Coalesce(fb, addr, _get_level(ab[addr])),
          alloc |-> Forget(ab, addr)]

\* sorted(S) for a finite set of ints: its elements in ascending order
RECURSIVE Sorted(_)
Sorted(S) ==
    IF S = {} THEN <<>>
    ELSE LET m == CHOOSE x \in S : \A y \in S : x <= y
         IN  <<m>> \o Sorted(S \ {m})

\* the "Allocated:" lines: one per item of sorted(allocated_blocks.items())
AllocatedLines(ab) ==
    LET addrs == Sorted(DOMAIN ab)
    IN  [i \in 1..Len(addrs) |->
            [state |-> "Allocated", first |-> addrs[i],
             end |-> addrs[i] + ab[addrs[i]] - 1, size |-> ab[addrs[i]]]]

\* the "Free:" lines of one level, by ascending address
FreeLinesOf(fb, lvl) ==
    LET addrs == Sorted(fb[lvl])
    IN  [i \in 1..Len(addrs) |->
            [state |-> "Free", first |-> addrs[i],
             end |-> addrs[i] + Shl(min_size, lvl) - 1, size |-> Shl(min_size, lvl)]]

\* the loop `for lvl in range(self.levels)` from level lvl on
RECURSIVE FreeLines(_, _)
FreeLines(fb, lvl) ==
    IF lvl >= levels THEN <<>> ELSE FreeLinesOf(fb, lvl) \o FreeLines(fb, lvl + 1)

\* variant: the text also carries the number of calls made so far
MutMemoryMapTextCounts(fb, ab) ==
    [total |-> total_size + Len(history),
     lines |-> AllocatedLines(ab) \o FreeLines(fb, 0)]

\* the text memory_map returns: the header's total and the lines in order
MemoryMapText(fb, ab) ==
    [total |-> total_size, lines |-> AllocatedLines(ab) \o FreeLines(fb, 0)]

\* no cache is in play: the runs of the allocator
NoCache ==
    /\ capacity = 0
    /\ cache = <<>>
    /\ stamp = <<>>
    /\ clock = 0
    /\ lru_last = [op |-> "none", key |-> 0, present |-> FALSE, ret |-> None,
                   evicted |-> None]

\* no allocator is in play: the runs of the cache
NoAllocator ==
    /\ total_size = 0
    /\ min_size = 0
    /\ levels = 0
    /\ free_blocks = <<>>
    /\ allocated_blocks = <<>>
    /\ last = [op |-> "none", arg |-> 0, ret |-> None]
    /\ pre = [free |-> <<>>, alloc |-> <<>>]
    /\ history = <<>>
    /\ threads = <<>>

\* no MMU is in play
NoMMU ==
    /\ page_size = 0
    /\ num_frames = 0
    /\ page_table = <<>>
    /\ free_frames = {}
    /\ used_frames = {}
    /\ page_faults = 0
    /\ memory_accesses = 0
    /\ mmu_last = [op |-> "none", pid |-> 0, va |-> 0, ret |-> None, fault |-> FALSE,
                   raised |-> FALSE]

\* no ResourceAllocator is in play
NoPool ==
    /\ max_gpus = 0
    /\ max_cpus = 0
    /\ gpu_semaphore = 0
    /\ cpu_semaphore = 0
    /\ tasks = <<>>

\* no VirtualMemoryManager is in play
NoVMM ==
    /\ total_memory = 0
    /\ vm_page_size = 0
    /\ physical_memory = <<>>
    /\ disk = <<>>
    /\ vm_page_faults = 0
    /\ hits = 0
    /\ vm_stamp = <<>>
    /\ vm_last = [page_id |-> 0, data |-> 0, ret |-> FALSE, full |-> FALSE,
                  evicted |-> None]

\* ---- the state machine ----
Init ==
    /\ total_size \in 1..MaxTotal
    /\ min_size \in 1..MaxTotal
    /\ ConstructOK(total_size, min_size)
    /\ levels = InitLevels(total_size, min_size)
    /\ free_blocks = InitFreeBlocks(levels)
    /\ allocated_blocks = <<>>
    /\ last = [op |-> "init", arg |-> 0, ret |-> None]
    /\ pre = [free |-> free_blocks, alloc |-> allocated_blocks]
    /\ history = <<>>
    /\ threads = <<>>
    /\ NoCache
    /\ NoMMU
    /\ NoPool
    /\ NoVMM

\* sizes a caller may ask for: up to ReqSlack more than the whole space
Requests == 1..(total_size + ReqSlack)

\* sizes that are not positive; allocate takes them like any other int
NonPositiveRequests == (0 - ReqSlack)..0

Addresses == 0..total_size

allocate(size_mb) ==
    \E o \in AllocateOutcomes(free_blocks, allocated_blocks, size_mb) :
        /\ free_blocks' = o.free
        /\ allocated_blocks' = o.alloc
        /\ last' = [op |-> "allocate", arg |-> size_mb, ret |-> o.ret]
        /\ pre' = [free |-> free_blocks, alloc |-> allocated_blocks]
        /\ UNCHANGED <<total_size, min_size, levels>>

deallocate(addr) ==
    LET o == DeallocateOutcome(free_blocks, allocated_blocks, addr)
    IN  /\ free_blocks' = o.free
        /\ allocated_blocks' = o.alloc
        /\ last' = [op |-> "deallocate", arg |-> addr, ret |-> o.ret]
        /\ pre' = [free |-> free_blocks, alloc |-> allocated_blocks]
        /\ UNCHANGED <<total_size, min_size, levels>>

\* variant: the free sets are emptied while they are listed
MutMemoryMapDrains ==
    /\ last' = [op |-> "memory_map", arg |-> 0,
                ret |-> MemoryMapText(free_blocks, allocated_blocks)]
    /\ pre' = [free |-> free_blocks, alloc |-> allocated_blocks]
    /\ free_blocks' = [l \in DOMAIN free_blocks |-> {}]
    /\ UNCHANGED <<total_size, min_size, levels, allocated_blocks>>

memory_map ==
    /\ last' = [op |-> "memory_map", arg |-> 0,
                ret |-> MemoryMapText(free_blocks, allocated_blocks)]
    /\ pre' = [free |-> free_blocks, alloc |-> allocated_blocks]
    /\ UNCHANGED <<total_size, min_size, levels, free_blocks, allocated_blocks>>

Next ==
    \/ \E size_mb \in Requests : allocate(size_mb) /\ UNCHANGED <<history, elsewhere>>
    \/ \E size_mb \in NonPositiveRequests : allocate(size_mb) /\ UNCHANGED <<history, elsewhere>>
    \/ \E addr \in Addresses : deallocate(addr) /\ UNCHANGED <<history, elsewhere>>
    \/ memory_map /\ UNCHANGED <<history, elsewhere>>

Spec == Init /\ [][Next]_vars

\* ---- scenario runs: a few calls on the documented configurations ----
\* the longest scenario run, in calls
MaxCalls == 5

\* (total_memory_mb, min_block_mb) of the scenarios
ScenarioConfigs == {<<1024, 64>>, <<1024, 128>>}

InitScenario ==
    /\ \E c \in ScenarioConfigs : total_size = c[1] /\ min_size = c[2]
    /\ levels = InitLevels(total_size, min_size)
    /\ free_blocks = InitFreeBlocks(levels)
    /\ allocated_blocks = <<>>
    /\ last = [op |-> "init", arg |-> 0, ret |-> None]
    /\ pre = [free |-> free_blocks, alloc |-> allocated_blocks]
    /\ history = <<>>
    /\ threads = <<>>
    /\ NoCache
    /\ NoMMU
    /\ NoPool
    /\ NoVMM

ScenarioSizes == {min_size, 2 * min_size, total_size}

ScenarioAddresses == {0, min_size, 2 * min_size}

NextScenario ==
    /\ Len(history) < MaxCalls
    /\ \/ \E size_mb \in ScenarioSizes : allocate(size_mb)
       \/ \E addr \in ScenarioAddresses : deallocate(addr)
       \/ memory_map
    /\ history' = Append(history, last')
    /\ UNCHANGED elsewhere

SpecScenario == InitScenario /\ [][NextScenario]_vars

\* ---- construction on its own: any pair of ints is passed to __init__ ----
ConstructorArgs == (0 - MaxTotal)..MaxTotal

\* a call BuddySystemAllocator(total_memory_mb, min_block_mb) is about to run
InitNew ==
    /\ last \in {[op |-> "new", arg |-> <<t, m>>, ret |-> "pending"]
                    : t \in ConstructorArgs, m \in ConstructorArgs}
    /\ total_size = 0
    /\ min_size = 0
    /\ levels = 0
    /\ free_blocks = <<>>
    /\ allocated_blocks = <<>>
    /\ pre = [free |-> free_blocks, alloc |-> allocated_blocks]
    /\ history = <<>>
    /\ threads = <<>>
    /\ NoCache
    /\ NoMMU
    /\ NoPool
    /\ NoVMM

\* __init__ runs: it raises and leaves no allocator, or sets the fields
__init__ ==
    /\ last.op = "new"
    /\ LET total_memory_mb == last.arg[1]
           min_block_mb == last.arg[2]
           out == NewOutcome(total_memory_mb, min_block_mb)
       IN  /\ last' = [op |-> "__init__", arg |-> last.arg, ret |-> out]
           /\ IF out = "ok"
              THEN /\ total_size' = total_memory_mb
                   /\ min_size' = min_block_mb
                   /\ levels' = InitLevels(total_memory_mb, min_block_mb)
                   /\ free_blocks' =
                        InitFreeBlocks(InitLevels(total_memory_mb, min_block_mb))
                   /\ allocated_blocks' = <<>>
              ELSE UNCHANGED <<total_size, min_size, levels, free_blocks,
                               allocated_blocks>>
    /\ UNCHANGED <<pre, history, elsewhere>>

NextNew == __init__

SpecNew == InitNew /\ [][NextNew]_vars

\* ---- the calls statement by statement, for one or more callers ----
\* largest total_memory_mb / min_block_mb of the step-wise runs of one caller
MaxStepTotal == 8

\* largest total_memory_mb / min_block_mb of the runs of two callers
MaxSharedTotal == 4

\* a caller that is not inside a call
IdleCaller ==
    [pc |-> "idle", op |-> "none", arg |-> 0, level |-> 0, lvl |-> 0, addr |-> 0,
     ret |-> None, raised |-> FALSE, scanned |-> 0, splits |-> 0, merges |-> 0]

InitCallers(callers, bound) ==
    /\ total_size \in 1..bound
    /\ min_size \in 1..bound
    /\ ConstructOK(total_size, min_size)
    /\ levels = InitLevels(total_size, min_size)
    /\ free_blocks = InitFreeBlocks(levels)
    /\ allocated_blocks = <<>>
    /\ last = [op |-> "init", arg |-> 0, ret |-> None]
    /\ pre = [free |-> free_blocks, alloc |-> allocated_blocks]
    /\ history = <<>>
    /\ threads = [t \in callers |-> IdleCaller]
    /\ NoCache
    /\ NoMMU
    /\ NoPool
    /\ NoVMM

\* deallocate's True and False, kept as the integers they are in Python
PyTrue == 1
PyFalse == 0

\* the caller t returns ret: its locals are dropped, the counts are kept
Return(t, ret) ==
    threads' = [threads EXCEPT ![t] =
                    [@ EXCEPT !.pc = "idle", !.ret = ret, !.level = 0, !.lvl = 0,
                              !.addr = 0]]

\* the call of t ends in an uncaught KeyError; nothing it did is undone
Raise(t) ==
    threads' = [threads EXCEPT ![t] =
                    [@ EXCEPT !.pc = "idle", !.raised = TRUE, !.level = 0, !.lvl = 0,
                              !.addr = 0]]

\* t enters allocate(size_mb): level = self._get_level(size_mb)
CallAllocate(t, size_mb) ==
    /\ threads[t].pc = "idle"
    /\ threads' = [threads EXCEPT ![t] =
            [pc |-> "scan", op |-> "allocate", arg |-> size_mb,
             level |-> _get_level(size_mb), lvl |-> _get_level(size_mb),
             addr |-> 0, ret |-> None, raised |-> FALSE,
             scanned |-> 0, splits |-> 0, merges |-> 0]]
    /\ UNCHANGED <<free_blocks, allocated_blocks>>

\* variant: an empty level is examined again instead of the next one
MutAllocScanStuck(t) ==
    /\ threads[t].pc = "scan"
    /\ IF threads[t].lvl >= levels
       THEN Return(t, None)
       ELSE IF free_blocks[threads[t].lvl] # {}
            THEN threads' = [threads EXCEPT ![t].pc = "pop",
                                            ![t].scanned = @ + 1]
            ELSE UNCHANGED threads
    /\ UNCHANGED <<free_blocks, allocated_blocks>>

\* for lvl in range(level, self.levels): if self.free_blocks[lvl]
AllocScan(t) ==
    /\ threads[t].pc = "scan"
    /\ IF threads[t].lvl >= levels
       THEN Return(t, None)
       ELSE IF free_blocks[threads[t].lvl] # {}
            THEN threads' = [threads EXCEPT ![t].pc = "pop",
                                            ![t].scanned = @ + 1]
            ELSE threads' = [threads EXCEPT ![t].lvl = @ + 1,
                                            ![t].scanned = @ + 1]
    /\ UNCHANGED <<free_blocks, allocated_blocks>>

\* addr = self.free_blocks[lvl].pop(); KeyError if the set is empty by now
AllocPop(t) ==
    /\ threads[t].pc = "pop"
    /\ IF free_blocks[threads[t].lvl] = {}
       THEN /\ Raise(t)
            /\ UNCHANGED free_blocks
       ELSE \E addr \in free_blocks[threads[t].lvl] :
                /\ free_blocks' = PopFree(free_blocks, threads[t].lvl, addr)
                /\ threads' = [threads EXCEPT ![t].pc = "split", ![t].addr = addr]
    /\ UNCHANGED allocated_blocks

\* while lvl > level: lvl -= 1; self.free_blocks[lvl].add(addr + (min_size << lvl))
AllocSplit(t) ==
    /\ threads[t].pc = "split"
    /\ IF threads[t].lvl > threads[t].level
       THEN /\ free_blocks' = [free_blocks EXCEPT ![threads[t].lvl - 1] =
                    @ \cup {SplitBuddy(threads[t].addr, threads[t].lvl - 1)}]
            /\ threads' = [threads EXCEPT ![t].lvl = @ - 1, ![t].splits = @ + 1]
       ELSE /\ threads' = [threads EXCEPT ![t].pc = "record"]
            /\ UNCHANGED free_blocks
    /\ UNCHANGED allocated_blocks

\* self.allocated_blocks[addr] = self.min_size << level; return addr
AllocRecord(t) ==
    /\ threads[t].pc = "record"
    /\ allocated_blocks' = Record(allocated_blocks, threads[t].addr,
                                  Shl(min_size, threads[t].level))
    /\ Return(t, threads[t].addr)
    /\ UNCHANGED free_blocks

\* t enters deallocate(addr)
CallDeallocate(t, addr) ==
    /\ threads[t].pc = "idle"
    /\ threads' = [threads EXCEPT ![t] =
            [pc |-> "check", op |-> "deallocate", arg |-> addr,
             level |-> 0, lvl |-> 0, addr |-> addr, ret |-> None, raised |-> FALSE,
             scanned |-> 0, splits |-> 0, merges |-> 0]]
    /\ UNCHANGED <<free_blocks, allocated_blocks>>

\* if addr not in self.allocated_blocks: return False
DeallocCheck(t) ==
    /\ threads[t].pc = "check"
    /\ IF IsAllocated(allocated_blocks, threads[t].arg)
       THEN threads' = [threads EXCEPT ![t].pc = "forget"]
       ELSE Return(t, PyFalse)
    /\ UNCHANGED <<free_blocks, allocated_blocks>>

\* size = self.allocated_blocks.pop(addr); KeyError if the key is gone by now
DeallocForget(t) ==
    /\ threads[t].pc = "forget"
    /\ IF IsAllocated(allocated_blocks, threads[t].arg)
       THEN /\ allocated_blocks' = Forget(allocated_blocks, threads[t].arg)
            /\ threads' = [threads EXCEPT
                    ![t].pc = "merge",
                    ![t].level = _get_level(allocated_blocks[threads[t].arg]),
                    ![t].lvl = _get_level(allocated_blocks[threads[t].arg])]
       ELSE /\ Raise(t)
            /\ UNCHANGED allocated_blocks
    /\ UNCHANGED free_blocks

\* while current_level < self.levels - 1: if buddy_addr in free_blocks[...]
DeallocMerge(t) ==
    /\ threads[t].pc = "merge"
    /\ IF /\ threads[t].lvl < levels - 1
          /\ BuddyAddr(threads[t].addr, threads[t].lvl) \in free_blocks[threads[t].lvl]
       THEN threads' = [threads EXCEPT ![t].pc = "remove"]
       ELSE threads' = [threads EXCEPT ![t].pc = "add"]
    /\ UNCHANGED <<free_blocks, allocated_blocks>>

\* self.free_blocks[current_level].remove(buddy_addr); KeyError if it is gone;
\* current_addr = min(current_addr, buddy_addr); current_level += 1
DeallocRemove(t) ==
    /\ threads[t].pc = "remove"
    /\ LET buddy_addr == BuddyAddr(threads[t].addr, threads[t].lvl)
       IN  IF buddy_addr \in free_blocks[threads[t].lvl]
           THEN /\ free_blocks' = [free_blocks EXCEPT ![threads[t].lvl] =
                                        @ \ {buddy_addr}]
                /\ threads' = [threads EXCEPT
                        ![t].pc = "merge",
                        ![t].addr = Min(threads[t].addr, buddy_addr),
                        ![t].lvl = @ + 1,
                        ![t].merges = @ + 1]
           ELSE /\ Raise(t)
                /\ UNCHANGED free_blocks
    /\ UNCHANGED allocated_blocks

\* self.free_blocks[current_level].add(current_addr); return True
DeallocAdd(t) ==
    /\ threads[t].pc = "add"
    /\ free_blocks' = [free_blocks EXCEPT ![threads[t].lvl] =
                            @ \cup {threads[t].addr}]
    /\ Return(t, PyTrue)
    /\ UNCHANGED allocated_blocks

\* a caller starts a call
Call(t) ==
    /\ \/ \E size_mb \in Requests : CallAllocate(t, size_mb)
       \/ \E size_mb \in NonPositiveRequests : CallAllocate(t, size_mb)
       \/ \E addr \in Addresses : CallDeallocate(t, addr)
    /\ UNCHANGED <<total_size, min_size, levels, last, pre, history, lru, mmu, pool, vmm>>

\* a caller inside a call runs its next statement
Run(t) ==
    /\ \/ AllocScan(t)
       \/ AllocPop(t)
       \/ AllocSplit(t)
       \/ AllocRecord(t)
       \/ DeallocCheck(t)
       \/ DeallocForget(t)
       \/ DeallocMerge(t)
       \/ DeallocRemove(t)
       \/ DeallocAdd(t)
    /\ UNCHANGED <<total_size, min_size, levels, last, pre, history, lru, mmu, pool, vmm>>

NextSteps ==
    \/ \E t \in DOMAIN threads : Call(t)
    \/ \E t \in DOMAIN threads : Run(t)

\* one caller, as the allocator is written for
InitSteps == InitCallers({1}, MaxStepTotal)

SpecSteps == InitSteps /\ [][NextSteps]_vars

\* a call that has started keeps running: nothing in it waits
SpecStepsFair ==
    InitSteps /\ [][NextSteps]_vars /\ WF_vars(\E t \in DOMAIN threads : Run(t))

\* two callers share the allocator; the code takes no lock
InitShared == InitCallers({1, 2}, MaxSharedTotal)

SpecShared == InitShared /\ [][NextSteps]_vars

\* ---- LRUCache (page_replacement.py) ----
\* largest capacity of the caches checked; keys range over one more than that
MaxCapacity == 3

\* largest value stored
MaxValue == 2

\* number of recorded accesses after which a run stops
MaxLruOps == 5

\* get's answer for a key that is not cached
Missing == 0 - 1

LruKeys == 1..(MaxCapacity + 1)

LruValues == 1..MaxValue

\* LRUCache(capacity): any integer is accepted
Capacities == (0 - 1)..MaxCapacity

\* the keys of an OrderedDict, kept as a sequence from oldest to newest
Keys(c) == {c[i].key : i \in 1..Len(c)}

\* position of key k in the OrderedDict
IndexOf(c, k) == CHOOSE i \in 1..Len(c) : c[i].key = k

\* variant: the entry stays where it is
MutMoveToEndStays(c, k) ==
    c

\* self.cache.move_to_end(key)
MoveToEnd(c, k) ==
    SubSeq(c, 1, IndexOf(c, k) - 1) \o SubSeq(c, IndexOf(c, k) + 1, Len(c))
        \o <<c[IndexOf(c, k)]>>

\* self.cache[key] = value: a present key keeps its place, a new one goes last
SetItem(c, k, v) ==
    IF k \in Keys(c)
    THEN [i \in 1..Len(c) |-> IF c[i].key = k THEN [key |-> k, value |-> v] ELSE c[i]]
    ELSE Append(c, [key |-> k, value |-> v])

\* variant: one entry more than the capacity is tolerated
MutOverfullLoose(c, cap) ==
    Len(c) > cap + 1

\* len(self.cache) > self.capacity
Overfull(c, cap) ==
    Len(c) > cap

\* LRUCache.get: the cache after the call and the value returned
GetOutcome(c, k) ==
    IF k \notin Keys(c)
    THEN [cache |-> c, ret |-> Missing]
    ELSE [cache |-> MoveToEnd(c, k), ret |-> c[IndexOf(c, k)].value]

\* LRUCache.put: the cache after the call and the key popitem(last=False) removed
PutOutcome(c, cap, k, v) ==
    LET moved == IF k \in Keys(c) THEN MoveToEnd(c, k) ELSE c
        stored == SetItem(moved, k, v)
    IN  IF Overfull(stored, cap)
        THEN [cache |-> Tail(stored), evicted |-> Head(stored).key]
        ELSE [cache |-> stored, evicted |-> None]

\* the time of the latest access of every cached key, key k accessed at time now
Touch(st, c, k, now) ==
    [j \in Keys(c) |-> IF j = k THEN now ELSE st[j]]

InitLRU ==
    /\ NoAllocator
    /\ NoMMU
    /\ NoPool
    /\ NoVMM
    /\ capacity \in Capacities
    /\ cache = <<>>
    /\ stamp = <<>>
    /\ clock = 0
    /\ lru_last = [op |-> "init", key |-> 0, present |-> FALSE, ret |-> None,
                   evicted |-> None]

get(key) ==
    /\ clock < MaxLruOps
    /\ cache' = GetOutcome(cache, key).cache
    /\ clock' = IF key \in Keys(cache) THEN clock + 1 ELSE clock
    /\ stamp' = IF key \in Keys(cache) THEN Touch(stamp, cache', key, clock') ELSE stamp
    /\ lru_last' = [op |-> "get", key |-> key, present |-> key \in Keys(cache),
                    ret |-> GetOutcome(cache, key).ret, evicted |-> None]
    /\ UNCHANGED capacity

put(key, value) ==
    /\ clock < MaxLruOps
    /\ cache' = PutOutcome(cache, capacity, key, value).cache
    /\ clock' = clock + 1
    /\ stamp' = Touch(stamp, cache', key, clock')
    /\ lru_last' = [op |-> "put", key |-> key, present |-> key \in Keys(cache),
                    ret |-> None,
                    evicted |-> PutOutcome(cache, capacity, key, value).evicted]
    /\ UNCHANGED capacity

NextLRU ==
    \/ \E key \in LruKeys : get(key) /\ UNCHANGED <<allocator, mmu, pool, vmm>>
    \/ \E key \in LruKeys, value \in LruValues : put(key, value) /\ UNCHANGED <<allocator, mmu, pool, vmm>>

SpecLRU == InitLRU /\ [][NextLRU]_vars

\* ---- MMU (AddressTranslation.py) ----
\* largest number of physical frames of the MMUs checked
MaxFrames == 3

\* processes are numbered 1..MaxProcs
MaxProcs == 2

\* virtual pages range from one below 0 to MaxPage
MaxPage == 1

\* number of translate_address calls after which a run stops
MaxAccesses == 5

\* MMU(page_size_kb, physical_memory_mb=1): one megabyte of physical memory
PhysicalMemoryMb == 1

\* page sizes that give 0..MaxFrames frames in one megabyte
PageSizesKb == {(PhysicalMemoryMb * 1024) \div n : n \in 1..MaxFrames}
                   \cup {2 * PhysicalMemoryMb * 1024}

Processes == 1..MaxProcs

\* the first and the last address of every page
VirtualAddresses ==
    {pg * page_size + off : pg \in (0 - 1)..MaxPage, off \in {0, page_size - 1}}

\* a dict with key k set to v
DictSet(d, k, v) == [j \in DOMAIN d \cup {k} |-> IF j = k THEN v ELSE d[j]]

\* a dict without key k
DictDel(d, k) == [j \in DOMAIN d \ {k} |-> d[j]]

\* the values of a dict
DictValues(d) == {d[j] : j \in DOMAIN d}

\* if process_id not in self.page_table: self.page_table[process_id] = {}
WithProcess(pt, process_id) ==
    IF process_id \in DOMAIN pt THEN pt ELSE DictSet(pt, process_id, <<>>)

InitMMU ==
    /\ NoAllocator
    /\ NoCache
    /\ NoPool
    /\ NoVMM
    /\ \E page_size_kb \in PageSizesKb :
        /\ page_size = page_size_kb * 1024
        /\ num_frames = (PhysicalMemoryMb * 1024 * 1024) \div page_size
    /\ page_table = <<>>
    /\ free_frames = 0..(num_frames - 1)
    /\ used_frames = {}
    /\ page_faults = 0
    /\ memory_accesses = 0
    /\ mmu_last = [op |-> "init", pid |-> 0, va |-> 0, ret |-> None, fault |-> FALSE,
                   raised |-> FALSE]

\* MMU._allocate_frame: the frame set.pop() hands out goes to used_frames
_allocate_frame(frame_number) ==
    /\ frame_number \in free_frames
    /\ free_frames' = free_frames \ {frame_number}
    /\ used_frames' = used_frames \cup {frame_number}

translate_address(virtual_address, process_id) ==
    LET page_number == virtual_address \div page_size
        offset == virtual_address % page_size
        pt == WithProcess(page_table, process_id)
    IN  /\ memory_accesses < MaxAccesses
        /\ memory_accesses' = memory_accesses + 1
        /\ IF page_number \in DOMAIN pt[process_id]
           THEN /\ mmu_last' = [op |-> "translate_address", pid |-> process_id,
                                va |-> virtual_address,
                                ret |-> pt[process_id][page_number] * page_size + offset,
                                fault |-> FALSE, raised |-> FALSE]
                /\ page_table' = pt
                /\ UNCHANGED <<free_frames, used_frames, page_faults>>
           ELSE /\ page_faults' = page_faults + 1
                /\ IF free_frames = {}
                   THEN /\ mmu_last' = [op |-> "translate_address", pid |-> process_id,
                                        va |-> virtual_address, ret |-> None,
                                        fault |-> TRUE, raised |-> TRUE]
                        /\ page_table' = pt
                        /\ UNCHANGED <<free_frames, used_frames>>
                   ELSE \E frame_number \in free_frames :
                        /\ _allocate_frame(frame_number)
                        /\ page_table' = DictSet(pt, process_id,
                                DictSet(pt[process_id], page_number, frame_number))
                        /\ mmu_last' = [op |-> "translate_address", pid |-> process_id,
                                        va |-> virtual_address,
                                        ret |-> frame_number * page_size + offset,
                                        fault |-> TRUE, raised |-> FALSE]
        /\ UNCHANGED <<page_size, num_frames>>

\* variant: the frames go back to free_frames but stay in used_frames
MutReleaseFramesKeepsUsed(free, used, frames) ==
    [free |-> free \cup (frames \cap used), used |-> used]

\* for frame in ...values(): if frame in used_frames: remove it, add it to free_frames
ReleaseFrames(free, used, frames) ==
    [free |-> free \cup (frames \cap used), used |-> used \ frames]

free_process_memory(process_id) ==
    /\ IF process_id \in DOMAIN page_table
       THEN LET out == ReleaseFrames(free_frames, used_frames,
                                     DictValues(page_table[process_id]))
            IN  /\ free_frames' = out.free
                /\ used_frames' = out.used
                /\ page_table' = DictDel(page_table, process_id)
       ELSE UNCHANGED <<page_table, free_frames, used_frames>>
    /\ mmu_last' = [op |-> "free_process_memory", pid |-> process_id, va |-> 0,
                    ret |-> None, fault |-> FALSE, raised |-> FALSE]
    /\ UNCHANGED <<page_size, num_frames, page_faults, memory_accesses>>

NextMMU ==
    \/ \E virtual_address \in VirtualAddresses, process_id \in Processes :
            translate_address(virtual_address, process_id)
                /\ UNCHANGED <<allocator, lru, pool, vmm>>
    \/ \E process_id \in Processes :
            free_process_memory(process_id) /\ UNCHANGED <<allocator, lru, pool, vmm>>

SpecMMU == InitMMU /\ [][NextMMU]_vars

\* ---- ResourceAllocator (allocator.py) ----
\* largest max_gpus / max_cpus of the allocators checked
MaxUnits == 2

\* number of add_task calls after which no more tasks are submitted
MaxTasks == 4

\* task_type: "gpu" goes to allocate_gpu_task, anything else to allocate_cpu_task
TaskTypes == {"gpu", "cpu"}

\* threading.Semaphore(value) raises ValueError for a negative value
InitPool ==
    /\ NoAllocator
    /\ NoCache
    /\ NoMMU
    /\ NoVMM
    /\ max_gpus \in 0..MaxUnits
    /\ max_cpus \in 0..MaxUnits
    /\ gpu_semaphore = max_gpus
    /\ cpu_semaphore = max_cpus
    /\ tasks = <<>>

\* add_task: a thread is created for the task and started
add_task(task_type) ==
    /\ Len(tasks) < MaxTasks
    /\ tasks' = Append(tasks, [type |-> task_type, pc |-> "started"])
    /\ UNCHANGED <<max_gpus, max_cpus, gpu_semaphore, cpu_semaphore>>
    /\ UNCHANGED <<allocator, lru, mmu, vmm>>

\* the value of the semaphore the task of thread i waits on
SemaphoreOf(i) == IF tasks[i].type = "gpu" THEN gpu_semaphore ELSE cpu_semaphore

\* variant: the semaphore is entered without being counted down
MutAcquiredFree(value) ==
    value

\* Semaphore.acquire once the value is positive
Acquired(value) ==
    value - 1

\* Semaphore.release
Released(value) ==
    value + 1

\* with self.gpu_semaphore: / with self.cpu_semaphore: the thread blocks while
\* the value is 0, then enters and calls task_func
Enter(i) ==
    /\ i \in 1..Len(tasks)
    /\ tasks[i].pc = "started"
    /\ SemaphoreOf(i) > 0
    /\ IF tasks[i].type = "gpu"
       THEN gpu_semaphore' = Acquired(gpu_semaphore) /\ UNCHANGED cpu_semaphore
       ELSE cpu_semaphore' = Acquired(cpu_semaphore) /\ UNCHANGED gpu_semaphore
    /\ tasks' = [tasks EXCEPT ![i].pc = "running"]
    /\ UNCHANGED <<max_gpus, max_cpus>>
    /\ UNCHANGED <<allocator, lru, mmu, vmm>>

\* task_func returns or raises; leaving the with block releases the semaphore
Leave(i) ==
    /\ i \in 1..Len(tasks)
    /\ tasks[i].pc = "running"
    /\ IF tasks[i].type = "gpu"
       THEN gpu_semaphore' = Released(gpu_semaphore) /\ UNCHANGED cpu_semaphore
       ELSE cpu_semaphore' = Released(cpu_semaphore) /\ UNCHANGED gpu_semaphore
    /\ \E outcome \in {"returned", "raised"} : tasks' = [tasks EXCEPT ![i].pc = outcome]
    /\ UNCHANGED <<max_gpus, max_cpus>>
    /\ UNCHANGED <<allocator, lru, mmu, vmm>>

NextPool ==
    \/ \E task_type \in TaskTypes : add_task(task_type)
    \/ \E i \in 1..MaxTasks : Enter(i)
    \/ \E i \in 1..MaxTasks : Leave(i)

SpecPool == InitPool /\ [][NextPool]_vars

\* a started thread is scheduled, and every running task function ends
SpecPoolFair ==
    /\ InitPool
    /\ [][NextPool]_vars
    /\ \A i \in 1..MaxTasks : WF_vars(Enter(i)) /\ WF_vars(Leave(i))

\* ---- VirtualMemoryManager (virtual_memory.py) ----
\* largest number of pages that fit in physical memory
MaxResident == 2

\* number of load_page calls after which a run stops
MaxLoads == 5

\* VirtualMemoryManager(total_memory_gb=1, page_size_mb)
TotalMemoryGb == 1

\* page sizes with which 1..MaxResident pages fill the memory
VmPageSizesMb == {((TotalMemoryGb * 1024) + n - 1) \div n : n \in 1..MaxResident}

VmPages == 1..(MaxResident + 1)

\* the data of a page; never None
VmData == {1, 2}

\* OrderedDict.get(key): the value, or None for a key that is not there
OdGet(c, k) == IF k \in Keys(c) THEN c[IndexOf(c, k)].value ELSE None

\* len(self.physical_memory) * self.page_size >= self.total_memory
MemoryFull(c) == Len(c) * vm_page_size >= total_memory

InitVMM ==
    /\ NoAllocator
    /\ NoCache
    /\ NoMMU
    /\ NoPool
    /\ total_memory = TotalMemoryGb * 1024
    /\ vm_page_size \in VmPageSizesMb
    /\ physical_memory = <<>>
    /\ disk = <<>>
    /\ vm_page_faults = 0
    /\ hits = 0
    /\ vm_stamp = <<>>
    /\ vm_last = [page_id |-> 0, data |-> 0, ret |-> FALSE, full |-> FALSE,
                  evicted |-> None]

\* the page popitem(last=False) removes, what is left, and what goes to disk:
\* the page is looked up in physical_memory after it has been removed from it
EvictOutcome(c) ==
    [evicted |-> Head(c).key,
     memory |-> Tail(c),
     saved |-> OdGet(Tail(c), Head(c).key)]

load_page(page_id, data) ==
    /\ hits + vm_page_faults < MaxLoads
    /\ IF page_id \in Keys(physical_memory)
       THEN /\ hits' = hits + 1
            /\ physical_memory' = MoveToEnd(physical_memory, page_id)
            /\ vm_last' = [page_id |-> page_id, data |-> data, ret |-> TRUE,
                           full |-> FALSE, evicted |-> None]
            /\ UNCHANGED <<vm_page_faults, disk>>
       ELSE /\ vm_page_faults' = vm_page_faults + 1
            /\ IF MemoryFull(physical_memory)
               THEN LET out == EvictOutcome(physical_memory)
                    IN  /\ disk' = DictSet(disk, out.evicted, out.saved)
                        /\ physical_memory' =
                                Append(out.memory, [key |-> page_id, value |-> data])
                        /\ vm_last' = [page_id |-> page_id, data |-> data,
                                       ret |-> FALSE, full |-> TRUE,
                                       evicted |-> out.evicted]
               ELSE /\ physical_memory' =
                            Append(physical_memory, [key |-> page_id, value |-> data])
                    /\ vm_last' = [page_id |-> page_id, data |-> data, ret |-> FALSE,
                                   full |-> FALSE, evicted |-> None]
                    /\ UNCHANGED disk
            /\ UNCHANGED hits
    /\ vm_stamp' = Touch(vm_stamp, physical_memory', page_id, hits' + vm_page_faults')
    /\ UNCHANGED <<total_memory, vm_page_size>>

NextVMM ==
    \E page_id \in VmPages, data \in VmData :
        load_page(page_id, data) /\ UNCHANGED <<allocator, lru, mmu, pool>>

SpecVMM == InitVMM /\ [][NextVMM]_vars

\* ---- views of the state used by the properties ----
\* size of a block of level l
LevelSize(l) == Shl(min_size, l)

\* every block the allocator knows: free ones by level, allocated ones by map
FreeEntries == {[kind |-> "free", level |-> l, addr |-> a, size |-> LevelSize(l)]
                    : <<l, a>> \in UNION {{<<l, a>> : a \in free_blocks[l]} : l \in DOMAIN free_blocks}}

AllocEntries == {[kind |-> "alloc", level |-> _get_level(allocated_blocks[a]),
                  addr |-> a, size |-> allocated_blocks[a]]
                    : a \in DOMAIN allocated_blocks}

Entries == FreeEntries \cup AllocEntries

RECURSIVE SumSizes(_)
SumSizes(S) ==
    IF S = {} THEN 0
    ELSE LET e == CHOOSE x \in S : TRUE IN e.size + SumSizes(S \ {e})

\* [a1, a1 + s1) and [a2, a2 + s2) intersect
Intersect(a1, s1, a2, s2) == a1 < a2 + s2 /\ a2 < a1 + s1

\* C1: after every call, the sizes of all free blocks plus the sizes of all
\* allocated blocks add up to total_size.
Conservation == SumSizes(Entries) = total_size

NoFreeBuddyPair ==
    \A l \in DOMAIN free_blocks :
        l < levels - 1 =>
            \A a \in free_blocks[l] : Xor(a, LevelSize(l)) \notin free_blocks[l]

NoFreeBuddyPairWitness ==
    /\ last.op = "deallocate" /\ last.ret = TRUE
    /\ Xor(last.arg, pre.alloc[last.arg]) \in pre.free[_get_level(pre.alloc[last.arg])]
    /\ _get_level(pre.alloc[last.arg]) < levels - 1

\* C6: a successful allocate immediately followed by deallocate of the address
\* it returned leaves free_blocks and allocated_blocks as they were before the
\* allocate.
RoundTrip ==
    [][(/\ last.op = "allocate" /\ last.arg > 0 /\ last.ret # None
        /\ last'.op = "deallocate" /\ last'.arg = last.ret)
        => /\ free_blocks' = pre.free
           /\ allocated_blocks' = pre.alloc]_vars

\* C7: whenever nothing is allocated, the free sets are those of the initial
\* state: {0} at the top level and nothing below.
FullCoalescing ==
    DOMAIN allocated_blocks = {} => free_blocks = InitFreeBlocks(levels)

\* C8: deallocate of an address that is not a key of allocated_blocks returns
\* False and changes neither the free sets nor the allocated map.
InvalidDeallocate ==
    (last.op = "deallocate" /\ last.arg \notin DOMAIN pre.alloc)
        => /\ last.ret = FALSE
           /\ free_blocks = pre.free
           /\ allocated_blocks = pre.alloc

\* a double free: the address was handed out and freed before
InvalidDeallocateWitness ==
    /\ last.op = "deallocate" /\ last.ret = FALSE
    /\ \E l \in DOMAIN free_blocks : last.arg \in free_blocks[l]
    /\ DOMAIN allocated_blocks # {}

\* C9: an allocate that returns None leaves the free sets and the allocated map
\* as they were before the call.
OutOfMemoryUnchanged ==
    (last.op = "allocate" /\ last.ret = None)
        => /\ free_blocks = pre.free
           /\ allocated_blocks = pre.alloc

\* a failing request that fits total_size, with smaller blocks still free
OutOfMemoryUnchangedWitness ==
    /\ last.op = "allocate" /\ last.ret = None
    /\ last.arg > 0 /\ last.arg <= total_size
    /\ \E l \in DOMAIN free_blocks : free_blocks[l] # {}

\* C10: for R > 0 with target level k, allocate(R) returns None exactly when
\* no level in k..levels-1 holds a free block; it succeeds whenever a free
\* block at least as large as the rounded request exists.
AllocationCompleteness ==
    (last.op = "allocate" /\ last.arg > 0)
        => LET k == _get_level(last.arg)
           IN  /\ (last.ret = None) <=> (\A l \in k..(levels - 1) : pre.free[l] = {})
               /\ (\E l \in DOMAIN pre.free :
                      pre.free[l] # {} /\ LevelSize(l) >= LevelSize(k))
                    => last.ret # None

\* a request served by splitting a larger block, and one refused although
\* smaller blocks are free
AllocationCompletenessWitness ==
    /\ last.op = "allocate" /\ last.arg > 0 /\ last.ret # None
    /\ pre.free[_get_level(last.arg)] = {}
    /\ DOMAIN pre.alloc # {}

\* C11: allocate(R) with R <= 0 is rejected: it returns no address and changes
\* neither the free sets nor the allocated map.
InvalidSizeRejected ==
    (last.op = "allocate" /\ last.arg <= 0)
        => /\ last.ret = None
           /\ free_blocks = pre.free
           /\ allocated_blocks = pre.alloc

\* the smallest block size min_size * 2^k that is >= R
RECURSIVE RoundedFrom(_, _)
RoundedFrom(R, size) == IF size >= R THEN size ELSE RoundedFrom(R, 2 * size)

Rounded(R) == RoundedFrom(R, min_size)

\* C12: for 0 < R <= total_size a successful allocate(R) records the smallest
\* block size min_size * 2^k that is >= R: exactly min_size for R < min_size,
\* and less than 2R for R >= min_size.
LevelSelection ==
    (last.op = "allocate" /\ last.arg > 0 /\ last.arg <= total_size
        /\ last.ret # None)
        => LET size == allocated_blocks[last.ret]
           IN  /\ size = Rounded(last.arg)
               /\ size >= last.arg
               /\ \E k \in 0..(levels - 1) : size = min_size * (2 ^ k)
               /\ last.arg < min_size => size = min_size
               /\ last.arg >= min_size => size < 2 * last.arg

\* a request that is neither below min_size nor a block size itself
LevelSelectionWitness ==
    /\ last.op = "allocate" /\ last.ret # None
    /\ last.arg > min_size /\ last.arg <= total_size
    /\ allocated_blocks[last.ret] > last.arg
    /\ allocated_blocks[last.ret] >= 4 * min_size

\* total = min * 2^n for some n >= 0, both positive
IsPowerOfTwoMultiple(total, min) ==
    min > 0 /\ \E n \in 0..MaxTotal : total = min * (2 ^ n)

\* C13: constructing with a total_size that is not min_block_size * 2^n never
\* yields an allocator whose top-level free block is smaller than total_size.
NonPowerOfTwoRejected ==
    (last.op = "__init__" /\ last.arg[1] > 0 /\ last.arg[2] > 0
        /\ ~IsPowerOfTwoMultiple(last.arg[1], last.arg[2]) /\ last.ret = "ok")
        => Shl(min_size, levels - 1) >= total_size

\* C14: constructing with min_block_size > total_size, or with a non-positive
\* total_size or min_block_size, fails and produces no allocator.
BadParametersRejected ==
    (last.op = "__init__"
        /\ (last.arg[2] > last.arg[1] \/ last.arg[1] <= 0 \/ last.arg[2] <= 0))
        => last.ret # "ok"

\* C15: after construction with total_size = min_block_size * 2^n there are
\* n + 1 levels, the top level holds the one free block 0 of size total_size,
\* every other free set is empty and nothing is allocated.
InitialState ==
    \A n \in 0..MaxTotal :
        (last.op = "__init__" /\ last.arg[2] > 0
            /\ last.arg[1] = last.arg[2] * (2 ^ n))
            => /\ last.ret = "ok"
               /\ levels = n + 1
               /\ DOMAIN free_blocks = 0..n
               /\ free_blocks[n] = {0}
               /\ \A l \in 0..(n - 1) : free_blocks[l] = {}
               /\ DOMAIN allocated_blocks = {}
               /\ Shl(min_size, levels - 1) = total_size
               /\ total_size = last.arg[1] /\ min_size = last.arg[2]

InitialStateWitness ==
    /\ last.op = "__init__" /\ last.ret = "ok"
    /\ last.arg[2] > 1 /\ last.arg[1] = last.arg[2] * 4
    /\ levels = 3

\* the i-th call of the run was op(arg)
Called(i, op, arg) ==
    i <= Len(history) /\ history[i].op = op /\ history[i].arg = arg

\* C16: while one allocated block covers the whole space every allocate
\* returns None, and once that block is deallocated allocation succeeds again;
\* with total_size=1024, min_block_size=64 there are 5 levels, allocate(1024)
\* succeeds, a following allocate(64) fails, and after deallocate of the first
\* block allocate(64) succeeds.
Exhaustion ==
    /\ (last.op = "allocate" /\ 0 \in DOMAIN pre.alloc /\ pre.alloc[0] = total_size)
        => last.ret = None
    /\ (last.op = "deallocate" /\ last.ret = TRUE /\ pre.alloc[last.arg] = total_size)
        => \A R \in ScenarioSizes :
              \A o \in AllocateOutcomes(free_blocks, allocated_blocks, R) :
                  o.ret # None
    /\ (total_size = 1024 /\ min_size = 64)
        => /\ levels = 5
           /\ Called(1, "allocate", 1024) => history[1].ret # None
           /\ (Called(1, "allocate", 1024) /\ Called(2, "allocate", 64))
                => history[2].ret = None
           /\ (Called(1, "allocate", 1024) /\ Called(2, "allocate", 64)
                /\ Called(3, "deallocate", history[1].ret)
                /\ Called(4, "allocate", 64))
                => (history[3].ret = TRUE /\ history[4].ret # None)

ExhaustionWitness ==
    /\ total_size = 1024 /\ min_size = 64 /\ Len(history) = 4
    /\ Called(1, "allocate", 1024) /\ Called(2, "allocate", 64)
    /\ Called(3, "deallocate", history[1].ret) /\ Called(4, "allocate", 64)
    /\ history[2].ret = None /\ history[4].ret # None

\* C17: with total_size=1024, min_block_size=128 there are 4 levels;
\* allocate(128), allocate(128), allocate(256) return 0, 128 and 256; then
\* deallocate(0) and deallocate(128) leave 0 in the level-1 free set, level 0
\* empty and 256 -> 256 in the allocated map.
CoalescingScenario ==
    (total_size = 1024 /\ min_size = 128)
        => /\ levels = 4
           /\ (Called(1, "allocate", 128) /\ Called(2, "allocate", 128)
                /\ Called(3, "allocate", 256))
                => (history[1].ret = 0 /\ history[2].ret = 128 /\ history[3].ret = 256)
           /\ (Called(1, "allocate", 128) /\ Called(2, "allocate", 128)
                /\ Called(3, "allocate", 256) /\ Called(4, "deallocate", 0)
                /\ Called(5, "deallocate", 128) /\ Len(history) = 5)
                => /\ history[4].ret = TRUE /\ history[5].ret = TRUE
                   /\ 0 \in free_blocks[1]
                   /\ free_blocks[0] = {}
                   /\ 256 \in DOMAIN allocated_blocks
                   /\ allocated_blocks[256] = 256

CoalescingScenarioWitness ==
    /\ total_size = 1024 /\ min_size = 128 /\ Len(history) = 5
    /\ Called(1, "allocate", 128) /\ Called(2, "allocate", 128)
    /\ Called(3, "allocate", 256) /\ Called(4, "deallocate", 0)
    /\ Called(5, "deallocate", 128)
    /\ free_blocks[1] = {0}

\* C18: after allocate(R) has returned None, once a deallocate has left a free
\* block of level >= k (as when every block is freed and R <= total_size), a
\* retried allocate(R) succeeds.
RetryAfterError ==
    [][(/\ last.op = "allocate" /\ last.arg > 0 /\ last.ret = None
        /\ last'.op = "deallocate" /\ last'.ret = TRUE)
        => LET R == last.arg
               retry == AllocateOutcomes(free_blocks', allocated_blocks', R)
           IN  /\ (\E l \in _get_level(R)..(levels - 1) : free_blocks'[l] # {})
                    => \A o \in retry : o.ret # None
               /\ (DOMAIN allocated_blocks' = {} /\ R <= total_size)
                    => \A o \in retry : o.ret # None]_vars

\* C19: memory_map lists one entry per block in ascending address order, free
\* and allocated together, and the listed ranges cover [0, total_size) with no
\* gaps.
MemoryMapAscending ==
    last.op = "memory_map"
        => LET L == last.ret.lines
           IN  /\ Len(L) = Cardinality(Entries)
               /\ \A i \in 1..(Len(L) - 1) : L[i].first < L[i + 1].first
               /\ Len(L) > 0
               /\ L[1].first = 0
               /\ \A i \in 1..(Len(L) - 1) : L[i + 1].first = L[i].end + 1
               /\ L[Len(L)].end = total_size - 1

\* C20: a memory_map call leaves free_blocks, allocated_blocks, total_size,
\* min_size and levels unchanged.
MemoryMapReadOnly ==
    [][last'.op = "memory_map"
        => UNCHANGED <<free_blocks, allocated_blocks, total_size, min_size, levels>>]_vars

MemoryMapReadOnlyWitness ==
    /\ last.op = "memory_map"
    /\ Len(last.ret.lines) >= 4
    /\ free_blocks = pre.free /\ allocated_blocks = pre.alloc
    /\ Cardinality(DOMAIN allocated_blocks) >= 2

\* the calls i+1..j-1 of the run changed nothing: they failed or only listed
NoMutationBetween(i, j) ==
    \A n \in (i + 1)..(j - 1) :
        \/ history[n].op = "memory_map"
        \/ history[n].op = "allocate" /\ history[n].ret = None
        \/ history[n].op = "deallocate" /\ history[n].ret = FALSE

\* C21: two memory_map calls with no allocate or deallocate taking effect
\* between them return identical results.
MemoryMapIdempotent ==
    \A i \in 1..Len(history) : \A j \in (i + 1)..Len(history) :
        (history[i].op = "memory_map" /\ history[j].op = "memory_map"
            /\ NoMutationBetween(i, j))
            => history[i].ret = history[j].ret

MemoryMapIdempotentWitness ==
    /\ Len(history) >= 4
    /\ history[Len(history)].op = "memory_map"
    /\ history[Len(history) - 1].op = "memory_map"
    /\ Len(history[Len(history)].ret.lines) >= 4
    /\ Cardinality(DOMAIN allocated_blocks) >= 2

\* the level the block returned by the last allocate was taken from
TakenFrom == CHOOSE j \in DOMAIN pre.free : last.ret \in pre.free[j]

\* C23: a successful allocate(R) with target level k takes its block from the
\* lowest level j >= k whose free set is not empty.
SmallestSufficientBlock ==
    (last.op = "allocate" /\ last.ret # None)
        => LET k == _get_level(last.arg)
           IN  /\ \E j \in k..(levels - 1) : last.ret \in pre.free[j]
               /\ TakenFrom >= k
               /\ \A l \in k..(TakenFrom - 1) : pre.free[l] = {}
               /\ last.ret \notin free_blocks[TakenFrom]

\* a larger block is split although free blocks exist above it
SmallestSufficientBlockWitness ==
    /\ last.op = "allocate" /\ last.ret # None
    /\ TakenFrom > _get_level(last.arg)
    /\ \E l \in DOMAIN pre.free : l > TakenFrom /\ pre.free[l] # {}

\* C24: taking block a from level j for target level k < j removes a from
\* free_blocks[j], adds exactly a + (min_size << i) to free_blocks[i] for each
\* i in k..j-1, changes no other free set, and records a -> min_size << k.
SplitStep ==
    (last.op = "allocate" /\ last.ret # None)
        => LET k == _get_level(last.arg)
               j == TakenFrom
               a == last.ret
           IN  /\ free_blocks[j] = pre.free[j] \ {a}
               /\ \A i \in k..(j - 1) :
                    /\ free_blocks[i] = pre.free[i] \cup {a + (min_size * (2 ^ i))}
                    /\ Cardinality(free_blocks[i]) = Cardinality(pre.free[i]) + 1
               /\ \A l \in DOMAIN free_blocks :
                    (l < k \/ l > j) => free_blocks[l] = pre.free[l]
               /\ allocated_blocks[a] = min_size * (2 ^ k)

SplitStepWitness ==
    /\ last.op = "allocate" /\ last.ret > 0
    /\ TakenFrom >= _get_level(last.arg) + 2

\* the buddy of the block at addr of level l, as the claims write it
XorBuddy(addr, l) == Xor(addr, min_size * (2 ^ l))

\* the address the freed block has reached at level l >= k, merging upwards
\* from addr at level k while the buddy was free before the call
RECURSIVE MergedAddr(_, _, _)
MergedAddr(addr, k, l) ==
    IF l = k THEN addr
    ELSE Min(MergedAddr(addr, k, l - 1),
             XorBuddy(MergedAddr(addr, k, l - 1), l - 1))

\* the merges from level k reach level m: every buddy on the way was free
MergesUpTo(addr, k, m) ==
    \A i \in k..(m - 1) : XorBuddy(MergedAddr(addr, k, i), i) \in pre.free[i]

AllIdle == \A t \in DOMAIN threads : threads[t].pc = "idle"

\* C22: when calls of different callers interleave, no caller meets a partly
\* applied split or merge (no call fails on a block another call took away
\* under it), and once all calls have returned the state is one that calls
\* made one after another reach: no two buddies are free at the same level.
Atomicity ==
    /\ \A t \in DOMAIN threads : ~threads[t].raised
    /\ AllIdle => NoFreeBuddyPair

\* the counts of one call stay within the number of levels
CallBounded ==
    \A t \in DOMAIN threads :
        /\ threads[t].scanned <= levels
        /\ threads[t].splits <= levels - 1
        /\ threads[t].merges <= levels - 1

\* C26: every allocate and deallocate call returns; allocate examines at most
\* levels free sets and splits at most levels-1 times, deallocate merges at
\* most levels-1 times.
Termination ==
    /\ []CallBounded
    /\ (threads[1].pc # "idle") ~> (threads[1].pc = "idle")

\* a call that failed after examining every level, after a call that split
\* all the way down, has returned
TerminationWitness ==
    /\ levels >= 3
    /\ AllIdle
    /\ threads[1].op = "allocate"
    /\ threads[1].ret = None
    /\ threads[1].scanned = levels
    /\ \E a \in DOMAIN allocated_blocks : allocated_blocks[a] = min_size

\* C29: with capacity >= 0 the cache never holds more than capacity keys, and
\* a put of a key that is already cached evicts nothing.
LRUCapacity ==
    /\ [](capacity >= 0 => (Len(cache) <= capacity /\ Cardinality(Keys(cache)) = Len(cache)))
    /\ [][(capacity >= 0 /\ lru_last'.op = "put" /\ lru_last'.present)
            => (lru_last'.evicted = None /\ Keys(cache') = Keys(cache))]_vars

\* a full cache after a put of one of its keys
LRUCapacityWitness ==
    /\ capacity >= 2
    /\ Len(cache) = capacity
    /\ lru_last.op = "put"
    /\ lru_last.present
    /\ lru_last.evicted = None

\* the cached key whose latest access is the oldest
Oldest(c, st) == CHOOSE k \in Keys(c) : \A j \in Keys(c) : st[k] <= st[j]

\* C30: a put of a new key into a full cache evicts the key whose latest
\* access (a get that found it, or a put) is the oldest of the cached keys
\* (with nothing cached, the key just stored); a get of a key that is not cached
\* returns -1 and leaves contents and order as they were.
LRUEvictionOrder ==
    [][/\ (lru_last'.op = "put" /\ ~lru_last'.present /\ Len(cache) >= capacity)
            => lru_last'.evicted =
                    IF cache = <<>> THEN lru_last'.key ELSE Oldest(cache, stamp)
       /\ (lru_last'.op = "get" /\ ~lru_last'.present)
            => (lru_last'.ret = Missing /\ cache' = cache /\ stamp' = stamp)]_vars

\* put(1), put(2), get(1) or put(1), put(3), put(4): key 2 is evicted, key 1 stays
LRUEvictionOrderWitness ==
    /\ capacity = 3
    /\ lru_last.op = "put"
    /\ lru_last.key = 4
    /\ lru_last.evicted = 2
    /\ Keys(cache) = {1, 3, 4}
    /\ stamp[1] > 2

\* the (process, page) pairs that have a frame
MappedPairs ==
    {pp \in (DOMAIN page_table) \X ((0 - 1)..MaxPage) : pp[2] \in DOMAIN page_table[pp[1]]}

\* the frames some process's page table maps
MappedFrames == {page_table[pp[1]][pp[2]] : pp \in MappedPairs}

\* C31: after any translate_address and free_process_memory calls, raising
\* ones included, free_frames and used_frames are disjoint and together are
\* all num_frames frames, used_frames is the set of frames mapped in some
\* page table, and no frame is mapped by two (process, page) pairs.
FrameOwnership ==
    /\ free_frames \cap used_frames = {}
    /\ free_frames \cup used_frames = 0..(num_frames - 1)
    /\ used_frames = MappedFrames
    /\ \A pp \in MappedPairs, qq \in MappedPairs :
            page_table[pp[1]][pp[2]] = page_table[qq[1]][qq[2]] => pp = qq

\* both processes hold frames, every frame is used, a translate_address has
\* just raised MemoryError, and frames had been freed and handed out again
FrameOwnershipWitness ==
    /\ num_frames >= 2
    /\ mmu_last.raised
    /\ free_frames = {}
    /\ \A p \in Processes : p \in DOMAIN page_table /\ DOMAIN page_table[p] # {}
    /\ page_faults > num_frames + 1

\* the threads that are inside task_func through the given entry point
Inside(task_type) ==
    {i \in 1..Len(tasks) : tasks[i].type = task_type /\ tasks[i].pc = "running"}

\* thread i has been submitted
Submitted(i) == i <= Len(tasks)

\* the task function of thread i has been called
HasRun(i) == Submitted(i) /\ tasks[i].pc \in {"running", "returned", "raised"}

\* at most max_gpus task functions are inside allocate_gpu_task at a time and
\* at most max_cpus inside allocate_cpu_task
ConcurrencyBound ==
    /\ Cardinality(Inside("gpu")) <= max_gpus
    /\ Cardinality(Inside("cpu")) <= max_cpus

\* C32 as stated: the bound holds and every submitted task eventually runs,
\* given that running task functions return.
EverySubmittedTaskRuns ==
    /\ []ConcurrencyBound
    /\ \A i \in 1..MaxTasks : Submitted(i) ~> HasRun(i)

\* the allocator has units of the kind thread i asked for
HasUnits(i) ==
    Submitted(i) /\ (IF tasks[i].type = "gpu" THEN max_gpus >= 1 ELSE max_cpus >= 1)

\* C32 amended: the bound holds, and every submitted task whose kind has at
\* least one unit (max_gpus >= 1 for gpu tasks, max_cpus >= 1 for the others)
\* eventually runs, given that running task functions return.
SubmittedTaskRunsGivenUnits ==
    /\ []ConcurrencyBound
    /\ \A i \in 1..MaxTasks : HasUnits(i) ~> HasRun(i)

\* more gpu tasks than gpus were submitted, all gpus are busy, one task has
\* already finished and one is still waiting
SubmittedTaskRunsGivenUnitsWitness ==
    /\ max_gpus >= 1
    /\ Cardinality(Inside("gpu")) = max_gpus
    /\ gpu_semaphore = 0
    /\ \E i \in 1..Len(tasks) : tasks[i].type = "gpu" /\ tasks[i].pc = "started"
    /\ \E i \in 1..Len(tasks) : tasks[i].type = "gpu" /\ tasks[i].pc = "returned"

\* C33: a load_page that faults with physical memory full evicts the resident
\* page whose latest load_page is the oldest, stores under that page's id in
\* disk the data that was resident (not None), and does not let the number
\* of resident pages grow.
EvictionSavesPage ==
    [][vm_last'.full =>
        /\ vm_last'.evicted = Oldest(physical_memory, vm_stamp)
        /\ vm_last'.evicted \in DOMAIN disk'
        /\ disk'[vm_last'.evicted] = OdGet(physical_memory, vm_last'.evicted)
        /\ disk'[vm_last'.evicted] # None
        /\ Len(physical_memory') <= Len(physical_memory)]_vars

====
